---- MODULE Spec2Model ----
(***************************************************************************)
(* The npm metadata clients of types-publisher (lib/npm-client.ts):        *)
(* CachedNpmInfoClient, UncachedNpmInfoClient and NpmPublishClient.        *)
(*                                                                         *)
(* Values of type `T | undefined` whose T is an object are modelled with   *)
(* the record `undefined`; string-typed optionals (contentHash,            *)
(* deprecated) use the string UndefinedStr.  Maps and JSON objects are     *)
(* functions on their key sets.  Version i stands for the version string   *)
(* "1.0.i", and timestamps are publish counts.                             *)
(***************************************************************************)
EXTENDS Integers, Sequences, FiniteSets, TLC

VARIABLES
    registry,        \* npm registry: package name -> content hashes of the published versions
    unpublished,     \* npm registry: the packages that were removed from it
    file,            \* cache/npmInfo.json: [exists, json]
    fileStoredWith,  \* history: for each entry of the file, the contentHash it was stored with
    pc,              \* per session: position inside CachedNpmInfoClient.with
    cache,           \* per session: CachedNpmInfoClient.cache
    storedWith,      \* history: per session, the contentHash each cache entry was stored with
    loaded,          \* history: per session, the cache as loaded when the session started
    loads,           \* per session: reads of the cache file
    writes,          \* per session: writeJson calls on the cache file
    lastCall,        \* per session: the getNpmInfo call the callback is awaiting
    prev,            \* history: how the last ended session ended, and its final cache if with() returned
    npm,             \* registry write side: what RegClient.publish has been asked to publish
    lastPublish,     \* the last NpmPublishClient.publish call and how its promise settled
    run,             \* bin/publish-registry: the position, inputs and effects of one run of main
    lastDeprecate,   \* the last NpmPublishClient.deprecate call: the url and params given to RegClient
    roundTrip        \* a raw document and what npmInfoFromJson and jsonFromNpmInfo make of it

cacheVars == <<file, fileStoredWith, pc, cache, storedWith, loaded, loads, writes, lastCall, prev>>
publishVars == <<npm, lastPublish>>
auxVars == <<run, lastDeprecate, roundTrip>>
vars == <<registry, unpublished, file, fileStoredWith, pc, cache, storedWith, loaded, loads, writes,
          lastCall, prev, npm, lastPublish, run, lastDeprecate, roundTrip>>

----------------------------------------------------------------------------
(* Bounds and value sets *)

MaxPublished == 2
MaxPatch == 2
MaxNameLen == 3

Sessions == {"p1", "p2"}
Names == {"a", "b"}
Hashes == {"H1", "H2"}
UndefinedStr == "undefined"
undefined == [kind |-> "undefined"]
EmptyMap == [n \in {} |-> undefined]

RECURSIVE SumLen(_, _)
SumLen(reg, names) ==
    IF names = {} THEN 0
    ELSE LET n == CHOOSE x \in names : TRUE
         IN Len(reg[n]) + SumLen(reg, names \ {n})

----------------------------------------------------------------------------
(* The registry's documents *)

\* The document the registry serves for a package whose versions 1..Len(hs)
\* were published with content hashes hs: the NpmInfoRaw fields plus fields
\* the client does not track.
RawDoc(name, hs) ==
    [ name |-> name,
      version |-> Len(hs),
      versions |-> [v \in 1..Len(hs) |->
                      [ typesPublisherContentHash |-> hs[v],
                        name |-> name,
                        dist |-> "tarball" ]],
      time |-> [modified |-> Len(hs), created |-> 1] ]
    @@ ("dist-tags" :> [latest |-> Len(hs)])

\* fetcher.fetchJson: the registry's answer for a package; any request may
\* also be answered with an error payload.
FetchJson(name, fails) ==
    IF fails THEN [error |-> "Internal Server Error"]
    ELSE IF registry[name] = <<>> \/ name \in unpublished THEN [error |-> "Not found"]
    ELSE RawDoc(name, registry[name])

\* Raw documents as the registry may serve them: a version may carry a
\* deprecation message, any published version may be tagged latest, and a
\* readme may be attached.
Deprecations == {UndefinedStr, "msg"}
HashSeqs == UNION {[1..k -> Hashes] : k \in 1..MaxPublished}
WithDeprecated(ver, d) == IF d = UndefinedStr THEN ver ELSE ver @@ [deprecated |-> d]
WithReadme(doc, has) == IF has THEN doc @@ [readme |-> "text"] ELSE doc
RawDocs ==
    UNION { UNION { { WithReadme(
                        [RawDoc(n, hs) EXCEPT
                            !.versions = [v \in 1..Len(hs) |-> WithDeprecated(@[v], dep[v])],
                            !["dist-tags"] = [latest |-> l]],
                        has)
                      : dep \in [1..Len(hs) -> Deprecations], l \in 1..Len(hs), has \in BOOLEAN }
                  : hs \in HashSeqs }
          : n \in Names }

npmInfoFromJsonKeepsFields(n) ==
    [ version |-> n.version,
      distTags |-> [t \in DOMAIN n["dist-tags"] |-> n["dist-tags"][t]],
      versions |-> [v \in DOMAIN n.versions |-> n.versions[v]],
      timeModified |-> n.time.modified ]

npmInfoFromJson(n) ==
    [ version |-> n.version,
      distTags |-> [t \in DOMAIN n["dist-tags"] |-> n["dist-tags"][t]],
      versions |-> [v \in DOMAIN n.versions |->
                      [ typesPublisherContentHash |-> n.versions[v].typesPublisherContentHash,
                        deprecated |-> IF "deprecated" \in DOMAIN n.versions[v]
                                       THEN n.versions[v].deprecated
                                       ELSE UndefinedStr ]],
      timeModified |-> n.time.modified ]

jsonFromNpmInfoDropTime(n) ==
    [ version |-> n.version,
      versions |-> [v \in DOMAIN n.versions |-> n.versions[v]],
      time |-> [modified |-> 0] ]
    @@ ("dist-tags" :> [t \in DOMAIN n.distTags |-> n.distTags[t]])

jsonFromNpmInfo(n) ==
    [ version |-> n.version,
      versions |-> [v \in DOMAIN n.versions |-> n.versions[v]],
      time |-> [modified |-> n.timeModified] ]
    @@ ("dist-tags" :> [t \in DOMAIN n.distTags |-> n.distTags[t]])

\* JSON.stringify leaves out the properties whose value is undefined.
StringifyVersion(ver) ==
    [k \in {k \in DOMAIN ver : ver[k] # UndefinedStr} |-> ver[k]]

\* What writeJson puts in the file for a record of wire-shaped documents.
writeJson(record) ==
    [n \in DOMAIN record |->
        [record[n] EXCEPT !.versions =
            [v \in DOMAIN record[n].versions |-> StringifyVersion(record[n].versions[v])]]]

----------------------------------------------------------------------------
(* UncachedNpmInfoClient *)

fetchRawNpmInfoNotFoundThrows(escapedPackageName, info) ==
    IF "error" \in DOMAIN info
    THEN [outcome |-> "threw",
          value |-> [error |-> <<"Error getting version at", escapedPackageName, info.error>>]]
    ELSE [outcome |-> "returned", value |-> info]

fetchRawNpmInfoSwallowsErrors(escapedPackageName, info) ==
    IF "error" \in DOMAIN info
    THEN [outcome |-> "returned", value |-> undefined]
    ELSE [outcome |-> "returned", value |-> info]

\* info is what fetcher.fetchJson answered.
fetchRawNpmInfo(escapedPackageName, info) ==
    IF "error" \in DOMAIN info
    THEN IF info.error = "Not found"
         THEN [outcome |-> "returned", value |-> undefined]
         ELSE [outcome |-> "threw",
               value |-> [error |-> <<"Error getting version at", escapedPackageName, info.error>>]]
    ELSE [outcome |-> "returned", value |-> info]

\* pauses counts the sleep(0.01) calls made before control goes back.
fetchNpmInfo(escapedPackageName, info) ==
    LET raw == fetchRawNpmInfo(escapedPackageName, info)
    IN IF raw.outcome = "threw"
       THEN [outcome |-> "threw", value |-> raw.value, pauses |-> 0]
       ELSE [outcome |-> "returned",
             value |-> IF raw.value = undefined THEN undefined ELSE npmInfoFromJson(raw.value),
             pauses |-> 1]

----------------------------------------------------------------------------
(* CachedNpmInfoClient *)

NoCall == [outcome |-> "none"]
NoAnswer == [unasked |-> TRUE]

CacheHitIgnoresVersions(cache_, escapedPackageName, contentHash) ==
    /\ escapedPackageName \in DOMAIN cache_
    /\ contentHash # UndefinedStr

CacheHitNever(cache_, escapedPackageName, contentHash) == FALSE

\* The condition of getNpmInfo's early return.
CacheHit(cache_, escapedPackageName, contentHash) ==
    /\ escapedPackageName \in DOMAIN cache_
    /\ contentHash # UndefinedStr
    /\ \E v \in DOMAIN cache_[escapedPackageName].versions :
          cache_[escapedPackageName].versions[v].typesPublisherContentHash = contentHash

ShouldStoreWithoutHash(info, contentHash) == info # undefined

ShouldStoreOnlyMatching(info, contentHash) ==
    /\ info # undefined
    /\ contentHash # UndefinedStr
    /\ \E v \in DOMAIN info.versions : info.versions[v].typesPublisherContentHash = contentHash

\* The condition under which getNpmInfo stores what it fetched.
ShouldStore(info, contentHash) ==
    info # undefined /\ contentHash # UndefinedStr

MapSetNoOverwrite(map, key, value) ==
    [k \in DOMAIN map \cup {key} |-> IF k \in DOMAIN map THEN map[k] ELSE value]

MapSetOnlyExisting(map, key, value) ==
    [k \in DOMAIN map |-> IF k = key THEN value ELSE map[k]]

MapSetDropsOthers(map, key, value) ==
    [k \in {key} |-> value]

\* Map.prototype.set
MapSet(map, key, value) ==
    [k \in DOMAIN map \cup {key} |-> IF k = key THEN value ELSE map[k]]

\* getNpmInfo on cache cache_, the registry answering info to a request:
\* the cache afterwards and the record of the call.
getNpmInfo(cache_, escapedPackageName, contentHash, info) ==
    IF CacheHit(cache_, escapedPackageName, contentHash)
    THEN [ cache |-> cache_,
           call |-> [ name |-> escapedPackageName, contentHash |-> contentHash,
                      before |-> cache_, fetches |-> 0, answer |-> NoAnswer,
                      outcome |-> "returned", result |-> cache_[escapedPackageName],
                      stored |-> FALSE, pauses |-> 0 ] ]
    ELSE LET fetched == fetchNpmInfo(escapedPackageName, info)
             stores == fetched.outcome = "returned" /\ ShouldStore(fetched.value, contentHash)
         IN [ cache |-> IF stores THEN MapSet(cache_, escapedPackageName, fetched.value)
                        ELSE cache_,
              call |-> [ name |-> escapedPackageName, contentHash |-> contentHash,
                         before |-> cache_, fetches |-> 1, answer |-> info,
                         outcome |-> fetched.outcome, result |-> fetched.value,
                         stored |-> stores, pauses |-> fetched.pauses ] ]

\* The cache a session starts with: pathExists(cacheFile) ? recordToMap(readJson, npmInfoFromJson) : new Map()
LoadCache(f) ==
    IF f.exists
    THEN [n \in DOMAIN f.json |-> npmInfoFromJson(f.json[n])]
    ELSE EmptyMap

writeCacheMerges(f, cache_) ==
    [ exists |-> TRUE,
      json |-> writeJson([n \in DOMAIN cache_ \cup DOMAIN LoadCache(f) |->
                            IF n \in DOMAIN cache_ THEN jsonFromNpmInfo(cache_[n])
                            ELSE jsonFromNpmInfo(LoadCache(f)[n])]) ]

\* The cache file after writeCache: ensureFile, then writeJson of mapToRecord(cache, jsonFromNpmInfo).
writeCache(f, cache_) ==
    [ exists |-> TRUE,
      json |-> writeJson([n \in DOMAIN cache_ |-> jsonFromNpmInfo(cache_[n])]) ]

----------------------------------------------------------------------------
(* Actions of the cache sessions *)

\* Another package version is published to the registry.
RegistryPublish(name, hash) ==
    /\ SumLen(registry, Names) < MaxPublished
    /\ name \notin unpublished
    /\ registry' = [registry EXCEPT ![name] = Append(@, hash)]
    /\ UNCHANGED <<unpublished, cacheVars, publishVars, auxVars>>

\* The package is unpublished from the registry.
RegistryUnpublish(name) ==
    /\ registry[name] # <<>>
    /\ name \notin unpublished
    /\ unpublished' = unpublished \cup {name}
    /\ UNCHANGED <<registry, cacheVars, publishVars, auxVars>>

\* with(): a process enters its session and loads the cache; sessions on one
\* cache file follow one another.
WithLoad(s) ==
    /\ \A t \in Sessions : pc[t] = "idle"
    /\ cache' = [cache EXCEPT ![s] = LoadCache(file)]
    /\ loaded' = [loaded EXCEPT ![s] = LoadCache(file)]
    /\ storedWith' = [storedWith EXCEPT ![s] = fileStoredWith]
    /\ loads' = [loads EXCEPT ![s] = @ + 1]
    /\ pc' = [pc EXCEPT ![s] = "cb"]
    /\ UNCHANGED <<registry, unpublished, file, fileStoredWith, writes, lastCall, prev, publishVars, auxVars>>

\* with() entered by a process while another process may be inside its own
\* session on the same cache file: nothing in with() keeps it out.
WithLoadConcurrent(s) ==
    /\ pc[s] = "idle"
    /\ cache' = [cache EXCEPT ![s] = LoadCache(file)]
    /\ loaded' = [loaded EXCEPT ![s] = LoadCache(file)]
    /\ storedWith' = [storedWith EXCEPT ![s] = fileStoredWith]
    /\ loads' = [loads EXCEPT ![s] = @ + 1]
    /\ pc' = [pc EXCEPT ![s] = "cb"]
    /\ UNCHANGED <<registry, unpublished, file, fileStoredWith, writes, lastCall, prev, publishVars, auxVars>>

\* cb calls client.getNpmInfo and awaits it.
GetNpmInfo(s, name, contentHash, fails) ==
    /\ pc[s] = "cb"
    /\ LET r == getNpmInfo(cache[s], name, contentHash, FetchJson(name, fails))
       IN /\ cache' = [cache EXCEPT ![s] = r.cache]
          /\ lastCall' = [lastCall EXCEPT ![s] =
                            r.call @@ [ registryAtCall |-> FetchJson(name, FALSE),
                                        storedWithBefore |-> storedWith[s] ]]
          /\ storedWith' = [storedWith EXCEPT ![s] =
                              IF r.call.stored
                              THEN [k \in DOMAIN @ \cup {name} |->
                                      IF k = name THEN contentHash ELSE @[k]]
                              ELSE @]
    /\ pc' = [pc EXCEPT ![s] = "awaited"]
    /\ UNCHANGED <<registry, unpublished, file, fileStoredWith, loaded, loads, writes, prev, publishVars, auxVars>>

\* cb goes on after the call: with its value, or having caught its failure.
CbContinue(s) ==
    /\ pc[s] = "awaited"
    /\ lastCall' = [lastCall EXCEPT ![s] = NoCall]
    /\ pc' = [pc EXCEPT ![s] = "cb"]
    /\ UNCHANGED <<registry, unpublished, file, fileStoredWith, cache, storedWith, loaded, loads, writes,
                   prev, publishVars, auxVars>>

\* cb resolves: with() writes the cache and returns cb's result.
CbResolves(s) ==
    /\ pc[s] = "cb"
    /\ file' = writeCache(file, cache[s])
    /\ fileStoredWith' = storedWith[s]
    /\ writes' = [writes EXCEPT ![s] = @ + 1]
    /\ pc' = [pc EXCEPT ![s] = "returned"]
    /\ UNCHANGED <<registry, unpublished, cache, storedWith, loaded, loads, lastCall, prev, publishVars, auxVars>>

\* cb rejects, by itself or because the getNpmInfo call it awaited threw:
\* the await in with() throws and with() rejects.
CbRejects(s) ==
    /\ \/ pc[s] = "cb"
       \/ pc[s] = "awaited" /\ lastCall[s].outcome = "threw"
    /\ pc' = [pc EXCEPT ![s] = "rejected"]
    /\ UNCHANGED <<registry, unpublished, file, fileStoredWith, cache, storedWith, loaded, loads, writes,
                   lastCall, prev, publishVars, auxVars>>

\* The process of a finished session ends.
ProcessExit(s) ==
    /\ pc[s] \in {"returned", "rejected"}
    /\ prev' = [outcome |-> pc[s],
                 cache |-> IF pc[s] = "returned" THEN cache[s] ELSE EmptyMap]
    /\ pc' = [pc EXCEPT ![s] = "idle"]
    /\ cache' = [cache EXCEPT ![s] = EmptyMap]
    /\ storedWith' = [storedWith EXCEPT ![s] = EmptyMap]
    /\ loaded' = [loaded EXCEPT ![s] = EmptyMap]
    /\ loads' = [loads EXCEPT ![s] = 0]
    /\ writes' = [writes EXCEPT ![s] = 0]
    /\ lastCall' = [lastCall EXCEPT ![s] = NoCall]
    /\ UNCHANGED <<registry, unpublished, file, fileStoredWith, publishVars, auxVars>>

----------------------------------------------------------------------------
(* NpmPublishClient *)

ReadmeFile == "README.md"
\* The published directory: with or without a README.md.
Dirs == {[f \in {} |-> ""], [f \in {ReadmeFile} |-> "This package contains a listing"]}
\* The archive stream of createTgz reports no error, or reports one before
\* or after the registry has called back.
TgzOutcomes == {"ok", "errorFirst", "errorLater"}
PackageJsons == {[name |-> "types-registry", version |-> patch] : patch \in 0..MaxPatch}

publishIgnoresDry(publishedDirectory, packageJson, dry, tgz, err) ==
    IF ReadmeFile \notin DOMAIN publishedDirectory
    THEN [outcome |-> "rejected", registryCalls |-> 0, sent |-> {}]
    ELSE LET metadata == [readme |-> publishedDirectory[ReadmeFile]] @@ packageJson
             attempts == (IF tgz = "errorFirst" THEN <<"rejected">> ELSE <<>>)
                         \o <<IF err THEN "rejected" ELSE "resolved">>
         IN [outcome |-> Head(attempts), registryCalls |-> 1, sent |-> {metadata}]

\* publish(publishedDirectory, packageJson, dry): how its promise settles,
\* how often client.publish is called, and with which metadata.  attempts
\* lists the resolve and reject calls in the order they happen; the first
\* one settles the promise.  err: the registry's callback carries an error.
publish(publishedDirectory, packageJson, dry, tgz, err) ==
    IF ReadmeFile \notin DOMAIN publishedDirectory
    THEN [outcome |-> "rejected", registryCalls |-> 0, sent |-> {}]
    ELSE LET metadata == [readme |-> publishedDirectory[ReadmeFile]] @@ packageJson
             tgzError == IF tgz = "ok" THEN <<>> ELSE <<"rejected">>
             attempts ==
                 IF dry
                 THEN <<"resolved">> \o tgzError
                 ELSE (IF tgz = "errorFirst" THEN <<"rejected">> ELSE <<>>)
                      \o <<IF err THEN "rejected" ELSE "resolved">>
                      \o (IF tgz = "errorLater" THEN <<"rejected">> ELSE <<>>)
         IN [ outcome |-> Head(attempts),
              registryCalls |-> IF dry THEN 0 ELSE 1,
              sent |-> IF dry THEN {} ELSE {metadata} ]

\* A created client publishes a directory; the registry keeps what it
\* accepted.
Publish(publishedDirectory, packageJson, dry, tgz, err) ==
    /\ LET r == publish(publishedDirectory, packageJson, dry, tgz, err)
       IN /\ lastPublish' = [ dry |-> dry, readable |-> ReadmeFile \in DOMAIN publishedDirectory,
                              tgz |-> tgz, err |-> err, packageJson |-> packageJson,
                              outcome |-> r.outcome, registryCalls |-> r.registryCalls ]
          /\ npm' = IF err THEN npm ELSE npm \cup r.sent
    /\ UNCHANGED <<registry, unpublished, cacheVars, auxVars>>

----------------------------------------------------------------------------
(* bin/publish-registry: main, generateAndPublishRegistry, generate, publish *)

NoRun == [pc |-> "init"]
packageName == "types-registry"
readme == "This package contains a listing of all packages published to the @types scope on NPM."
HeaderLine == "=== Publishing types-registry ==="
NewPackagesLine == "New packages have been added, so publishing a new registry"
NoNewPackagesLine == "No new packages published, so no need to publish new registry."

\* The awaited steps of generateAndPublishRegistry, in program order.
Pipeline ==
    << "readTypings", "fetchLastPatchNumber", "clearOutputPath",
       "package.json", "index.json", "README.md", "create", "publish" >>

\* What readAdditions and readTypings may hand to a run.
AddedLists == {<<>>, <<"a">>, <<"a", "b">>}
TypingsLists ==
    { <<>>,
      <<[typingsPackageName |-> "a"]>>,
      <<[typingsPackageName |-> "a"], [typingsPackageName |-> "b"]>>,
      <<[typingsPackageName |-> "a"], [typingsPackageName |-> "b"], [typingsPackageName |-> "a"]>> }
\* What the output directory may hold when a run starts.
EmptyDir == [f \in {} |-> [json |-> ""]]
StaleDir == [f \in {"README.md", "index.json"} |-> [json |-> "stale"]]

HasAdditionsAlways(added) == TRUE

\* if (added.length)
HasAdditions(added) == Len(added) # 0

generatePackageJson(patch) ==
    [ name |-> packageName,
      version |-> <<0, 1, patch>>,
      description |-> "A registry of TypeScript declaration file packages published within the @types scope.",
      author |-> "Microsoft Corp.",
      license |-> "Apache-2.0" ]

generateRegistryFirstOnly(typings) ==
    [entries |-> [n \in {typings[i].typingsPackageName : i \in DOMAIN typings \cap {1}} |-> 1]]

generateRegistry(typings) ==
    [entries |-> [n \in {typings[i].typingsPackageName : i \in DOMAIN typings} |-> 1]]

\* io.writeJson(path.join(outputPath, filename), content)
writeOutputFile(files, filename, content) ==
    [f \in DOMAIN files \cup {filename} |-> IF f = filename THEN [json |-> content] ELSE files[f]]

createIgnoresSecret(secretOk) ==
    [outcome |-> "returned", auth |-> [token |-> "NPM_TOKEN"]]

\* NpmPublishClient.create: getSecret(Secret.NPM_TOKEN) answers or fails.
create(secretOk) ==
    IF secretOk
    THEN [outcome |-> "returned", auth |-> [token |-> "NPM_TOKEN"]]
    ELSE [outcome |-> "threw", auth |-> [token |-> UndefinedStr]]

NextPcIgnoresFailure(step, ok) ==
    IF step = "publish" THEN "writeLog"
    ELSE Pipeline[(CHOOSE i \in DOMAIN Pipeline : Pipeline[i] = step) + 1]

\* Where a run goes after an awaited step: on, or out with the failure.
NextPc(step, ok) ==
    IF ~ok THEN "failed"
    ELSE IF step = "publish" THEN "writeLog"
    ELSE Pipeline[(CHOOSE i \in DOMAIN Pipeline : Pipeline[i] = step) + 1]

Advance(r, step, ok) ==
    [r EXCEPT !.steps = Append(@, step),
              !.pc = NextPc(step, ok),
              !.failedAt = IF ok THEN @ ELSE step]

\* main up to its first await after readAdditions.
Main(dry, added, files) ==
    /\ run.pc = "init"
    /\ run' = [ pc |-> IF HasAdditions(added) THEN "readTypings" ELSE "writeLog",
                dry |-> dry,
                added |-> added,
                log |-> <<HeaderLine,
                          IF HasAdditions(added) THEN NewPackagesLine ELSE NoNewPackagesLine>>,
                steps |-> <<>>,
                failedAt |-> "none",
                typings |-> <<>>,
                last |-> -1,
                packageJson |-> [name |-> UndefinedStr],
                outputFiles |-> files,
                registryReads |-> 0,
                creates |-> 0,
                secretOk |-> TRUE,
                publishCalls |-> 0,
                registryPublishes |-> 0,
                npmAtStart |-> npm,
                logWritten |-> FALSE ]
    /\ UNCHANGED <<registry, unpublished, cacheVars, publishVars, lastDeprecate, roundTrip>>

ReadTypings(typings, ok) ==
    /\ run.pc = "readTypings"
    /\ run' = [Advance(run, "readTypings", ok) EXCEPT !.typings = IF ok THEN typings ELSE @]
    /\ UNCHANGED <<registry, unpublished, cacheVars, publishVars, lastDeprecate, roundTrip>>

\* fetchLastPatchNumber, then generatePackageJson(last + 1).
FetchLastPatchNumber(last, ok) ==
    /\ run.pc = "fetchLastPatchNumber"
    /\ run' = [Advance(run, "fetchLastPatchNumber", ok) EXCEPT
                 !.registryReads = @ + 1,
                 !.last = IF ok THEN last ELSE @,
                 !.packageJson = IF ok THEN generatePackageJson(last + 1) ELSE @]
    /\ UNCHANGED <<registry, unpublished, cacheVars, publishVars, lastDeprecate, roundTrip>>

ClearOutputPath(ok) ==
    /\ run.pc = "clearOutputPath"
    /\ run' = [Advance(run, "clearOutputPath", ok) EXCEPT
                 !.outputFiles = IF ok THEN EmptyDir ELSE @]
    /\ UNCHANGED <<registry, unpublished, cacheVars, publishVars, lastDeprecate, roundTrip>>

\* The three writeOutputFile calls of generate.
WriteOutputFile(ok) ==
    /\ run.pc \in {"package.json", "index.json", "README.md"}
    /\ LET content == CASE run.pc = "package.json" -> run.packageJson
                        [] run.pc = "index.json" -> generateRegistry(run.typings)
                        [] run.pc = "README.md" -> readme
       IN run' = [Advance(run, run.pc, ok) EXCEPT
                    !.outputFiles = IF ok THEN writeOutputFile(@, run.pc, content) ELSE @]
    /\ UNCHANGED <<registry, unpublished, cacheVars, publishVars, lastDeprecate, roundTrip>>

\* publish: NpmPublishClient.create().
CreateClient(secretOk) ==
    /\ run.pc = "create"
    /\ run' = [Advance(run, "create", create(secretOk).outcome = "returned") EXCEPT
                 !.creates = @ + 1,
                 !.secretOk = secretOk]
    /\ UNCHANGED <<registry, unpublished, cacheVars, publishVars, lastDeprecate, roundTrip>>

\* publish: client.publish(outputPath, packageJson, dry).
ClientPublish(tgz, err) ==
    /\ run.pc = "publish"
    /\ LET r == publish(run.outputFiles, run.packageJson, run.dry, tgz, err)
       IN /\ run' = [Advance(run, "publish", r.outcome = "resolved") EXCEPT
                       !.publishCalls = @ + 1,
                       !.registryPublishes = @ + r.registryCalls]
          /\ lastPublish' = [ dry |-> run.dry, readable |-> ReadmeFile \in DOMAIN run.outputFiles,
                              tgz |-> tgz, err |-> err, packageJson |-> run.packageJson,
                              outcome |-> r.outcome, registryCalls |-> r.registryCalls ]
          /\ npm' = IF err THEN npm ELSE npm \cup r.sent
    /\ UNCHANGED <<registry, unpublished, cacheVars, lastDeprecate, roundTrip>>

\* main: writeLog("publish-registry.md", logResult()).
WriteLog ==
    /\ run.pc = "writeLog"
    /\ run' = [run EXCEPT !.pc = "done", !.logWritten = TRUE]
    /\ UNCHANGED <<registry, unpublished, cacheVars, publishVars, lastDeprecate, roundTrip>>

\* The process ends; the next run starts afresh.
RunExit ==
    /\ run.pc \in {"done", "failed"}
    /\ run' = NoRun
    /\ lastPublish' = NoCall
    /\ UNCHANGED <<registry, unpublished, cacheVars, npm, lastDeprecate, roundTrip>>

----------------------------------------------------------------------------
(* NpmPublishClient.deprecate.  Strings that are taken apart are sequences *)
(* of characters.                                                          *)

Chars == {"@", "p", "/"}
\* Package names handed to deprecate; none starts with a slash.
PackageNames ==
    {n \in UNION {[1..k -> Chars] : k \in 1..MaxNameLen} : n[1] # "/"}
DeprecatedVersions == {"1.0.0", "2.0.0"}
Messages == {"msg", ""}
Slash == "/"
Encoded == <<"%", "2", "f">>
\* The registry's base url, a setting: one element that holds no "/" to replace.
npmRegistry == <<"npmRegistry">>

ReplaceNothing(s, pattern, replacement) == s

\* String.prototype.replace with a string pattern: the first occurrence only.
Replace(s, pattern, replacement) ==
    IF \E i \in DOMAIN s : s[i] = pattern
    THEN LET i == CHOOSE j \in DOMAIN s : s[j] = pattern /\ \A k \in 1..(j - 1) : s[k] # pattern
         IN SubSeq(s, 1, i - 1) \o replacement \o SubSeq(s, i + 1, Len(s))
    ELSE s

\* url.resolve(npmRegistry, packageName), for a name that is a relative path.
packageUrl(name) == npmRegistry \o name

\* deprecate(packageName, version, message): what client.deprecate is given.
deprecate(name, version, message) ==
    [ url |-> packageUrl(Replace(name, Slash, Encoded)),
      params |-> [message |-> message, version |-> version, auth |-> create(TRUE).auth] ]

\* A created client deprecates a version; err is what the registry calls back with.
Deprecate(name, version, message, err) ==
    /\ lastDeprecate' = [ name |-> name,
                          url |-> deprecate(name, version, message).url,
                          params |-> deprecate(name, version, message).params,
                          outcome |-> IF err THEN "rejected" ELSE "resolved" ]
    /\ UNCHANGED <<registry, unpublished, cacheVars, publishVars, run, roundTrip>>

----------------------------------------------------------------------------

Init ==
    /\ registry = [n \in Names |-> <<>>]
    /\ unpublished = {}
    /\ file = [exists |-> FALSE, json |-> EmptyMap]
    /\ fileStoredWith = EmptyMap
    /\ pc = [s \in Sessions |-> "idle"]
    /\ cache = [s \in Sessions |-> EmptyMap]
    /\ storedWith = [s \in Sessions |-> EmptyMap]
    /\ loaded = [s \in Sessions |-> EmptyMap]
    /\ loads = [s \in Sessions |-> 0]
    /\ writes = [s \in Sessions |-> 0]
    /\ lastCall = [s \in Sessions |-> NoCall]
    /\ prev = [outcome |-> "none", cache |-> EmptyMap]
    /\ npm = {}
    /\ lastPublish = NoCall
    /\ run = NoRun
    /\ lastDeprecate = NoCall
    /\ roundTrip = NoCall

Next ==
    \/ \E name \in Names, hash \in Hashes : RegistryPublish(name, hash)
    \/ \E name \in Names : RegistryUnpublish(name)
    \/ \E s \in Sessions : WithLoad(s)
    \/ \E s \in Sessions, name \in Names, contentHash \in Hashes \cup {UndefinedStr},
          fails \in BOOLEAN : GetNpmInfo(s, name, contentHash, fails)
    \/ \E s \in Sessions : CbContinue(s)
    \/ \E s \in Sessions : CbResolves(s)
    \/ \E s \in Sessions : CbRejects(s)
    \/ \E s \in Sessions : ProcessExit(s)

Spec == Init /\ [][Next]_vars

\* One session of each of two processes; the sessions may overlap on the
\* one cache file.
NextOverlap ==
    \/ \E name \in Names, hash \in Hashes : RegistryPublish(name, hash)
    \/ \E s \in Sessions : WithLoadConcurrent(s)
    \/ \E s \in Sessions, name \in Names, contentHash \in Hashes :
          GetNpmInfo(s, name, contentHash, FALSE)
    \/ \E s \in Sessions : CbContinue(s)
    \/ \E s \in Sessions : CbResolves(s)
    \/ \E s \in Sessions : CbRejects(s)

SpecOverlap == Init /\ [][NextOverlap]_vars

NextPublish ==
    \E publishedDirectory \in Dirs, packageJson \in PackageJsons, dry \in BOOLEAN,
       tgz \in TgzOutcomes, err \in BOOLEAN :
        Publish(publishedDirectory, packageJson, dry, tgz, err)

SpecPublish == Init /\ [][NextPublish]_vars

NextDriver ==
    \/ \E dry \in BOOLEAN, added \in AddedLists, files \in {EmptyDir, StaleDir} :
          Main(dry, added, files)
    \/ \E typings \in TypingsLists, ok \in BOOLEAN : ReadTypings(typings, ok)
    \/ \E last \in 0..MaxPatch, ok \in BOOLEAN : FetchLastPatchNumber(last, ok)
    \/ \E ok \in BOOLEAN : ClearOutputPath(ok)
    \/ \E ok \in BOOLEAN : WriteOutputFile(ok)
    \/ \E secretOk \in BOOLEAN : CreateClient(secretOk)
    \/ \E tgz \in TgzOutcomes, err \in BOOLEAN : ClientPublish(tgz, err)
    \/ WriteLog
    \/ RunExit

SpecDriver == Init /\ [][NextDriver]_vars

\* A raw document is normalized and the result is put back in wire shape.
RoundTrip(r) ==
    /\ roundTrip' = [ outcome |-> "done",
                      raw |-> r,
                      info |-> npmInfoFromJson(r),
                      json |-> jsonFromNpmInfo(npmInfoFromJson(r)) ]
    /\ UNCHANGED <<registry, unpublished, cacheVars, publishVars, run, lastDeprecate>>

NextRoundTrip == \E r \in RawDocs : RoundTrip(r)

SpecRoundTrip == Init /\ [][NextRoundTrip]_vars

NextDeprecate ==
    \E name \in PackageNames, version \in DeprecatedVersions, message \in Messages,
       err \in BOOLEAN :
        Deprecate(name, version, message, err)

SpecDeprecate == Init /\ [][NextDeprecate]_vars

----------------------------------------------------------------------------
(* Properties of getNpmInfo, stated on the call a callback is awaiting *)

Calling(s) == lastCall[s].outcome # "none"

HasVersionWithHash(info, contentHash) ==
    \E v \in DOMAIN info.versions : info.versions[v].typesPublisherContentHash = contentHash

\* What a fetch hands back for an answer that is no fatal error payload.
Normalized(answer) ==
    IF "error" \in DOMAIN answer THEN undefined ELSE npmInfoFromJson(answer)

\* C1 (as claimed): when cb fails after getNpmInfo calls have stored
\* entries, the cache file has still been written exactly once when with()
\* hands control back, and holds every entry that was stored before the
\* failure.
C1_WriteOnFailure ==
    \A s \in Sessions :
        (pc[s] = "rejected" /\ cache[s] # loaded[s]) =>
            /\ writes[s] = 1
            /\ file.exists
            /\ \A n \in DOMAIN cache[s] :
                  n \in DOMAIN file.json /\ npmInfoFromJson(file.json[n]) = cache[s][n]

\* C2: a call whose hash is carried by some version of the cached entry makes
\* no fetch, returns exactly the cached entry and leaves the whole cache as
\* it was.
C2_CacheHit ==
    \A s \in Sessions :
        LET c == lastCall[s] IN
        ( /\ Calling(s)
          /\ c.contentHash # UndefinedStr
          /\ c.name \in DOMAIN c.before
          /\ HasVersionWithHash(c.before[c.name], c.contentHash) )
        => /\ c.fetches = 0
           /\ c.outcome = "returned"
           /\ c.result = c.before[c.name]
           /\ cache[s] = c.before

C2_Witness ==
    \E s \in Sessions :
        LET c == lastCall[s] IN
        /\ Calling(s)
        /\ c.contentHash # UndefinedStr
        /\ c.name \in DOMAIN c.before
        /\ HasVersionWithHash(c.before[c.name], c.contentHash)
        /\ DOMAIN c.before = Names
        /\ c.fetches = 0

\* C3: a call for a cached name whose entry has no version with the supplied
\* hash makes exactly one fetch; when the fetch yields a document, the call
\* returns it and the entry for the name is overwritten with it.
C3_MissOnOtherHash ==
    \A s \in Sessions :
        LET c == lastCall[s] IN
        ( /\ Calling(s)
          /\ c.contentHash # UndefinedStr
          /\ c.name \in DOMAIN c.before
          /\ ~HasVersionWithHash(c.before[c.name], c.contentHash) )
        => /\ c.fetches = 1
           /\ "error" \notin DOMAIN c.answer =>
                 /\ c.outcome = "returned"
                 /\ c.result = npmInfoFromJson(c.answer)
                 /\ c.name \in DOMAIN cache[s]
                 /\ cache[s][c.name] = c.result

C3_Witness ==
    \E s \in Sessions :
        LET c == lastCall[s] IN
        /\ Calling(s)
        /\ c.contentHash # UndefinedStr
        /\ c.name \in DOMAIN c.before
        /\ ~HasVersionWithHash(c.before[c.name], c.contentHash)
        /\ "error" \notin DOMAIN c.answer
        /\ cache[s][c.name] # c.before[c.name]
        /\ cache[s][c.name] = c.result

\* C4: a call for a name without a cache entry makes exactly one fetch,
\* whatever the hash; when the fetch yields a document and the hash is
\* defined, the cache afterwards maps the name to that document and every
\* other key is as before.
C4_MissOnNoEntry ==
    \A s \in Sessions :
        LET c == lastCall[s] IN
        (Calling(s) /\ c.name \notin DOMAIN c.before)
        => /\ c.fetches = 1
           /\ ("error" \notin DOMAIN c.answer /\ c.contentHash # UndefinedStr) =>
                 /\ DOMAIN cache[s] = DOMAIN c.before \cup {c.name}
                 /\ cache[s][c.name] = npmInfoFromJson(c.answer)
                 /\ \A k \in DOMAIN c.before : cache[s][k] = c.before[k]

C4_Witness ==
    \E s \in Sessions :
        LET c == lastCall[s] IN
        /\ Calling(s)
        /\ c.name \notin DOMAIN c.before
        /\ c.before # EmptyMap
        /\ "error" \notin DOMAIN c.answer
        /\ c.contentHash # UndefinedStr
        /\ DOMAIN cache[s] = Names

\* C5: a call without a hash makes a fetch in every cache state, hands back
\* what the fetch handed back, and leaves the cache as it was.
C5_NoHashAlwaysFetches ==
    \A s \in Sessions :
        LET c == lastCall[s] IN
        (Calling(s) /\ c.contentHash = UndefinedStr)
        => /\ c.fetches = 1
           /\ cache[s] = c.before
           /\ c.outcome = "returned" => c.result = Normalized(c.answer)

C5_Witness ==
    \E s \in Sessions :
        LET c == lastCall[s] IN
        /\ Calling(s)
        /\ c.contentHash = UndefinedStr
        /\ c.name \in DOMAIN c.before
        /\ c.outcome = "returned"
        /\ c.result # undefined
        /\ c.result # c.before[c.name]

\* C6 (as claimed): a call whose hash differs from the hash the cached entry
\* was stored with is never answered from the cache; it returns what the
\* registry currently serves.
C6_NoStaleByStoredHash ==
    \A s \in Sessions :
        LET c == lastCall[s] IN
        ( /\ Calling(s)
          /\ c.contentHash # UndefinedStr
          /\ c.name \in DOMAIN c.before
          /\ c.storedWithBefore[c.name] # c.contentHash )
        => /\ c.fetches = 1
           /\ c.outcome = "returned" => c.result = Normalized(c.registryAtCall)

\* C6 (amended): a call whose hash is carried by no version of the cached
\* entry is never answered from the cache; it makes a fetch and, unless the
\* fetch fails, returns what the registry currently serves (absent when the
\* registry has no such package).
C6_NoStaleByVersionHashes ==
    \A s \in Sessions :
        LET c == lastCall[s] IN
        ( /\ Calling(s)
          /\ c.contentHash # UndefinedStr
          /\ c.name \in DOMAIN c.before
          /\ ~HasVersionWithHash(c.before[c.name], c.contentHash) )
        => /\ c.fetches = 1
           /\ c.outcome = "returned" => c.result = Normalized(c.registryAtCall)

\* The entry was loaded from the file written by an earlier session, the
\* registry has moved on since, and the call returns the current document.
C6_Witness ==
    \E s \in Sessions :
        LET c == lastCall[s] IN
        /\ Calling(s)
        /\ c.contentHash # UndefinedStr
        /\ c.name \in DOMAIN c.before
        /\ c.name \in DOMAIN loaded[s]
        /\ loaded[s][c.name] = c.before[c.name]
        /\ ~HasVersionWithHash(c.before[c.name], c.contentHash)
        /\ c.outcome = "returned"
        /\ c.result # undefined
        /\ c.result # c.before[c.name]

\* C7: on the normal path a session reads the file once before cb starts
\* (and starts empty when there is no file), writes nothing while cb runs
\* and writes once after cb resolved; the session after one that returned
\* starts with that session's final cache, so a first call for an entry of
\* it that carries the hash is a hit.
C7_SessionLifecycle ==
    \A s \in Sessions :
        LET c == lastCall[s] IN
        /\ pc[s] \in {"cb", "awaited"} =>
              /\ loads[s] = 1
              /\ writes[s] = 0
              /\ ~file.exists => loaded[s] = EmptyMap
        /\ pc[s] = "returned" => loads[s] = 1 /\ writes[s] = 1 /\ file.exists
        /\ (pc[s] # "idle" /\ prev.outcome = "returned") => loaded[s] = prev.cache
        /\ ( /\ Calling(s)
             /\ prev.outcome = "returned"
             /\ c.before = loaded[s]
             /\ c.name \in DOMAIN prev.cache
             /\ c.contentHash # UndefinedStr
             /\ HasVersionWithHash(prev.cache[c.name], c.contentHash) )
           => c.fetches = 0 /\ c.result = prev.cache[c.name]

C7_Witness ==
    \E s \in Sessions :
        LET c == lastCall[s] IN
        /\ Calling(s)
        /\ prev.outcome = "returned"
        /\ c.before = loaded[s]
        /\ c.name \in DOMAIN prev.cache
        /\ c.contentHash # UndefinedStr
        /\ HasVersionWithHash(prev.cache[c.name], c.contentHash)
        /\ c.fetches = 0

\* C8: when the registry answers the fetch with the error payload
\* "Not found", the call returns absent without failing and the cache is as
\* before, an entry already stored for the name included.
C8_NotFoundIsAValue ==
    \A s \in Sessions :
        LET c == lastCall[s] IN
        (Calling(s) /\ c.fetches = 1 /\ c.answer = [error |-> "Not found"])
        => /\ c.outcome = "returned"
           /\ c.result = undefined
           /\ cache[s] = c.before

C8_Witness ==
    \E s \in Sessions :
        LET c == lastCall[s] IN
        /\ Calling(s)
        /\ c.fetches = 1
        /\ c.answer = [error |-> "Not found"]
        /\ c.contentHash # UndefinedStr
        /\ c.name \in DOMAIN c.before
        /\ c.outcome = "returned"

\* C9: when the registry answers the fetch with another error payload, the
\* call fails with an error naming the package and the upstream message,
\* returns no value, and the cache is as before.
C9_UpstreamErrorIsFatal ==
    \A s \in Sessions :
        LET c == lastCall[s] IN
        ( /\ Calling(s)
          /\ c.fetches = 1
          /\ "error" \in DOMAIN c.answer
          /\ c.answer.error # "Not found" )
        => /\ c.outcome = "threw"
           /\ c.result = [error |-> <<"Error getting version at", c.name, c.answer.error>>]
           /\ cache[s] = c.before

\* The failure reaches with(): cb did not catch it and the session rejected.
C9_Witness ==
    \E s \in Sessions :
        LET c == lastCall[s] IN
        /\ pc[s] = "rejected"
        /\ Calling(s)
        /\ c.fetches = 1
        /\ "error" \in DOMAIN c.answer
        /\ c.answer.error # "Not found"
        /\ c.contentHash # UndefinedStr
        /\ c.before # EmptyMap
        /\ c.outcome = "threw"

----------------------------------------------------------------------------
(* Properties of NpmPublishClient.publish *)

Published == lastPublish.outcome # "none"

\* C10 (as claimed): a dry publish never calls the registry and resolves; a
\* real publish calls the registry exactly once and fails exactly when that
\* call reports an error.
C10_PublishAsClaimed ==
    Published =>
        /\ lastPublish.dry =>
              lastPublish.registryCalls = 0 /\ lastPublish.outcome = "resolved"
        /\ ~lastPublish.dry =>
              /\ lastPublish.registryCalls = 1
              /\ lastPublish.outcome = "rejected" <=> lastPublish.err

\* C10 (amended): a dry publish never calls the registry, and resolves
\* whenever README.md can be read; a real publish of a directory whose
\* README.md can be read calls the registry exactly once and, unless the
\* archive stream reports an error before the registry calls back, fails
\* exactly when that call reports an error; when README.md cannot be read
\* the publish fails without a registry call.
C10_Publish ==
    Published =>
        /\ lastPublish.dry => lastPublish.registryCalls = 0
        /\ (lastPublish.dry /\ lastPublish.readable) => lastPublish.outcome = "resolved"
        /\ (~lastPublish.dry /\ lastPublish.readable) =>
              /\ lastPublish.registryCalls = 1
              /\ lastPublish.tgz # "errorFirst" =>
                    (lastPublish.outcome = "rejected" <=> lastPublish.err)
        /\ ~lastPublish.readable =>
              lastPublish.registryCalls = 0 /\ lastPublish.outcome = "rejected"

\* A dry publish of a readable directory is followed by a real one of the
\* same manifest that the registry accepts.
C10_Witness ==
    /\ Published
    /\ ~lastPublish.dry
    /\ lastPublish.readable
    /\ ~lastPublish.err
    /\ lastPublish.outcome = "resolved"
    /\ [readme |-> "This package contains a listing"] @@ lastPublish.packageJson \in npm

----------------------------------------------------------------------------
(* Properties of the publish-registry run *)

Started == run.pc # "init"

StepDone(step) ==
    /\ \E i \in DOMAIN run.steps : run.steps[i] = step
    /\ run.failedAt # step

IsPrefix(s, t) ==
    Len(s) <= Len(t) /\ \A i \in DOMAIN s : s[i] = t[i]

TypingsNames == {run.typings[i].typingsPackageName : i \in DOMAIN run.typings}

OutputFilesOfThisRun ==
    /\ {"package.json", "index.json", "README.md"} \subseteq DOMAIN run.outputFiles
    /\ run.outputFiles["package.json"] = [json |-> run.packageJson]
    /\ run.outputFiles["index.json"] = [json |-> generateRegistry(run.typings)]
    /\ run.outputFiles["README.md"] = [json |-> readme]

\* C11: a run whose list of added packages is empty makes no registry call
\* (no patch-number fetch, no client creation, no publish), logs the
\* "no new packages" line and goes straight to writing its log and ending.
C11_NothingChanged ==
    (Started /\ Len(run.added) = 0) =>
        /\ run.steps = <<>>
        /\ run.registryReads = 0
        /\ run.creates = 0
        /\ run.publishCalls = 0
        /\ run.registryPublishes = 0
        /\ npm = run.npmAtStart
        /\ lastPublish = NoCall
        /\ run.log = <<HeaderLine, NoNewPackagesLine>>
        /\ run.pc \in {"writeLog", "done"}

\* The run ended, with a registry that earlier runs had published to.
C11_Witness ==
    /\ run.pc = "done"
    /\ Len(run.added) = 0
    /\ run.logWritten
    /\ npm # {}

\* C12: in a run with additions whose last published patch is p, the
\* manifest that is written and published has version 0.1.(p+1), and the
\* index written has exactly the names of the known packages as keys, each
\* mapped to 1.
C12_NextPatchAndIndex ==
    Started =>
        /\ StepDone("fetchLastPatchNumber") =>
              run.packageJson.version = <<0, 1, run.last + 1>>
        /\ StepDone("package.json") =>
              run.outputFiles["package.json"].json.version = <<0, 1, run.last + 1>>
        /\ StepDone("index.json") =>
              LET entries == run.outputFiles["index.json"].json.entries
              IN /\ DOMAIN entries = TypingsNames
                 /\ \A n \in DOMAIN entries : entries[n] = 1
        /\ "publish" \in {run.steps[i] : i \in DOMAIN run.steps} =>
              lastPublish.packageJson.version = <<0, 1, run.last + 1>>
        /\ (StepDone("publish") /\ ~run.dry) =>
              \E m \in npm : m.name = packageName /\ m.version = <<0, 1, run.last + 1>>

C12_Witness ==
    /\ Started
    /\ StepDone("publish")
    /\ ~run.dry
    /\ run.last = 1
    /\ Len(run.added) = 1
    /\ Len(run.typings) = 3
    /\ DOMAIN run.outputFiles["index.json"].json.entries = {"a", "b"}
    /\ \E m \in npm : m.version = <<0, 1, 2>>

\* C16: when the secret lookup fails, create fails and the run issues no
\* publish call at all; this is so in runs with additions, which are the
\* only ones that get to create.
C16_MissingSecret ==
    (Started /\ run.creates > 0 /\ ~run.secretOk) =>
        /\ run.pc = "failed"
        /\ run.failedAt = "create"
        /\ run.publishCalls = 0
        /\ run.registryPublishes = 0
        /\ npm = run.npmAtStart
        /\ lastPublish = NoCall
        /\ Len(run.added) > 0

C16_Witness ==
    /\ Started
    /\ run.creates = 1
    /\ ~run.secretOk
    /\ ~run.dry
    /\ Len(run.added) > 0
    /\ OutputFilesOfThisRun
    /\ run.pc = "failed"

\* C17: the steps of a run with additions are a prefix of the pipeline, so
\* each runs at most once and in order; publish is issued only with the three
\* output files of this run written; a failed step is the last step of the
\* run and makes it fail; a run that ends well ran the whole pipeline.
C17_LinearPipeline ==
    Started =>
        /\ IsPrefix(run.steps, Pipeline)
        /\ "publish" \in {run.steps[i] : i \in DOMAIN run.steps} => OutputFilesOfThisRun
        /\ run.publishCalls <= 1 /\ run.registryPublishes <= 1 /\ run.registryReads <= 1
        /\ run.failedAt # "none" =>
              /\ run.pc = "failed"
              /\ run.steps[Len(run.steps)] = run.failedAt
              /\ ~run.logWritten
        /\ run.pc = "failed" => run.failedAt # "none"
        /\ (run.pc \in {"writeLog", "done"} /\ Len(run.added) > 0) => run.steps = Pipeline
        /\ (run.pc \notin {"writeLog", "done", "failed"}) =>
              /\ Len(run.steps) < Len(Pipeline)
              /\ run.pc = Pipeline[Len(run.steps) + 1]

\* One run stopped by a failing write of index.json.
C17_Witness ==
    /\ run.pc = "failed"
    /\ run.failedAt = "index.json"
    /\ run.steps = <<"readTypings", "fetchLastPatchNumber", "clearOutputPath",
                     "package.json", "index.json">>
    /\ run.creates = 0
    /\ npm # {}

----------------------------------------------------------------------------
(* Properties of NpmPublishClient.deprecate *)

Deprecating == lastDeprecate.outcome # "none"

Slashes(s) == {i \in DOMAIN s : s[i] = Slash}

\* The part of the url after the registry's base.
UrlPath(url) == SubSeq(url, Len(npmRegistry) + 1, Len(url))

----------------------------------------------------------------------------
(* Properties of npmInfoFromJson and jsonFromNpmInfo *)

\* The value of a property of an object: undefined when the object lacks it.
Field(obj, k) == IF k \in DOMAIN obj THEN obj[k] ELSE UndefinedStr

\* C14: for every well-formed raw document r, jsonFromNpmInfo(npmInfoFromJson(r))
\* has the same version, dist-tags, time.modified and, for every version,
\* the same typesPublisherContentHash and deprecated as r, and has no other
\* top-level or per-version field of r.
C14_RoundTrip ==
    roundTrip.outcome = "done" =>
        LET r == roundTrip.raw
            j == roundTrip.json
        IN /\ j.version = r.version
           /\ j["dist-tags"] = r["dist-tags"]
           /\ j.time.modified = r.time.modified
           /\ DOMAIN j.versions = DOMAIN r.versions
           /\ \A v \in DOMAIN r.versions :
                /\ Field(j.versions[v], "typesPublisherContentHash")
                     = Field(r.versions[v], "typesPublisherContentHash")
                /\ Field(j.versions[v], "deprecated") = Field(r.versions[v], "deprecated")
                /\ DOMAIN j.versions[v] \subseteq {"typesPublisherContentHash", "deprecated"}
           /\ DOMAIN j = {"version", "dist-tags", "versions", "time"}
           /\ DOMAIN j.time = {"modified"}

C14_Witness ==
    /\ roundTrip.outcome = "done"
    /\ "readme" \in DOMAIN roundTrip.raw
    /\ DOMAIN roundTrip.raw.versions = {1, 2}
    /\ Field(roundTrip.raw.versions[1], "deprecated") = "msg"
    /\ Field(roundTrip.raw.versions[2], "deprecated") = UndefinedStr
    /\ "dist" \in DOMAIN roundTrip.raw.versions[1]
    /\ roundTrip.raw["dist-tags"].latest = 1
    /\ roundTrip.json.versions[1].deprecated = "msg"
    /\ roundTrip.json["dist-tags"].latest = 1
    /\ "readme" \notin DOMAIN roundTrip.json

----------------------------------------------------------------------------
(* Further properties of the cache session *)

\* C15 (as claimed): after every registry request made by fetchNpmInfo,
\* whatever its outcome, the pause is executed before the call hands control
\* back.
C15_PauseAfterEveryRequest ==
    \A s \in Sessions :
        (Calling(s) /\ lastCall[s].fetches = 1) => lastCall[s].pauses = 1

\* s is inside its session before and after the step.
InSession(s) == pc[s] # "idle" /\ pc'[s] # "idle"

\* The step is a getNpmInfo call of s whose fetch returned a document and
\* which was made with a defined hash.
FetchedWithHash(s) ==
    /\ pc[s] = "cb" /\ pc'[s] = "awaited"
    /\ lastCall'[s].fetches = 1
    /\ lastCall'[s].outcome = "returned"
    /\ lastCall'[s].result # undefined
    /\ lastCall'[s].contentHash # UndefinedStr

C19_Step(s) ==
    InSession(s) =>
        /\ DOMAIN cache[s] \subseteq DOMAIN cache'[s]
        /\ \A n \in DOMAIN cache'[s] :
             (n \notin DOMAIN cache[s] \/ cache'[s][n] # cache[s][n]) =>
                /\ FetchedWithHash(s)
                /\ lastCall'[s].name = n
                /\ cache'[s][n] = lastCall'[s].result
        /\ FetchedWithHash(s) => cache'[s][lastCall'[s].name] = lastCall'[s].result

\* C19: within a session no operation removes a cache entry: the cached
\* names always include the names loaded at the session's start, and an
\* entry changes only by a call for its name, made with a defined hash,
\* whose fetch returned a document, and every such call sets the entry to
\* that document (so an entry that differs from the loaded one is the
\* document of the most recent such fetch).
C19_NoRemoval ==
    /\ [](\A s \in Sessions : pc[s] # "idle" => DOMAIN loaded[s] \subseteq DOMAIN cache[s])
    /\ [][\A s \in Sessions : C19_Step(s)]_vars

\* A loaded entry was replaced by a later fetch, and the last call, which
\* failed, left it in place.
C19_Witness ==
    \E s \in Sessions :
        /\ pc[s] = "awaited"
        /\ lastCall[s].outcome = "threw"
        /\ \E n \in DOMAIN loaded[s] : cache[s][n] # loaded[s][n]
        /\ DOMAIN loaded[s] \subseteq DOMAIN cache[s]

----------------------------------------------------------------------------
(* Overlapping sessions *)

\* The step is the load of session s.
Loads(s) == pc[s] = "idle" /\ pc'[s] = "cb"

\* The step is the write of session s.
Writes(s) == pc[s] = "cb" /\ pc'[s] = "returned"

\* C18: when two sessions run concurrently against the same cache file,
\* each loads its own copy of the file, and each write leaves the file equal
\* to the writer's in-memory cache: after both have finished the file is the
\* cache of the session that wrote last, and an entry that only the session
\* that wrote first holds is absent from the file.
C18_LostUpdate ==
    [][\A s \in Sessions :
          /\ Loads(s) => /\ cache'[s] = LoadCache(file)
                         /\ \A t \in Sessions \ {s} : cache'[t] = cache[t]
          /\ Writes(s) =>
               /\ LoadCache(file') = cache[s]
               /\ \A t \in Sessions \ {s} :
                    pc[t] = "returned" =>
                        \A n \in DOMAIN cache[t] \ DOMAIN cache[s] :
                            n \notin DOMAIN LoadCache(file')]_vars

\* Both sessions loaded the empty cache, each stored a name of its own, both
\* wrote, and the file holds only one of the two names.
C18_Witness ==
    \E s, t \in Sessions :
        /\ s # t
        /\ pc[s] = "returned" /\ pc[t] = "returned"
        /\ loaded[s] = EmptyMap /\ loaded[t] = EmptyMap
        /\ LoadCache(file) = cache[s]
        /\ cache[s] # EmptyMap
        /\ \E n \in DOMAIN cache[t] : n \notin DOMAIN LoadCache(file)

----------------------------------------------------------------------------
(* Repeated lookups *)

\* The last call of s fetched and the registry returned a document.
FetchedDocument(s) ==
    /\ Calling(s)
    /\ lastCall[s].fetches = 1
    /\ lastCall[s].outcome = "returned"
    /\ lastCall[s].result # undefined

\* A miss for (name, H) whose fetched document has no version with hash H
\* stores the document anyway.
StoredAnyway(s) ==
    ( /\ FetchedDocument(s)
      /\ lastCall[s].contentHash # UndefinedStr
      /\ ~HasVersionWithHash(lastCall[s].result, lastCall[s].contentHash) )
    => /\ lastCall[s].name \in DOMAIN cache[s]
       /\ cache[s][lastCall[s].name] = lastCall[s].result

\* A call for (name, H) is a hit with zero fetches when the entry for name
\* has a version with hash H, and fetches otherwise.
FetchesUnlessHit(s) ==
    (Calling(s) /\ lastCall[s].contentHash # UndefinedStr) =>
        lastCall[s].fetches =
            IF CacheHit(lastCall[s].before, lastCall[s].name, lastCall[s].contentHash)
            THEN 0 ELSE 1

====
